---- MODULE Spec2Model ----
(***************************************************************************)
(* A model of the two scripts of PeeringDB_Queries:                        *)
(*   hhi_index.py  calculate_hhi_for_ixps and the report block of __main__ *)
(*   asn_type.py   create_session and query_peeringdb_networks             *)
(*                                                                         *)
(* Floating point values (market shares, the HHI score, the displayed     *)
(* value) are modelled as exact fractions [num, den] with den > 0, so the  *)
(* arithmetic relations are checked exactly and not up to rounding; sums   *)
(* and products are kept in lowest terms.                                  *)
(* Python dicts are insertion ordered: a dict whose iteration order is     *)
(* observable is a sequence of <<key, value>> pairs, a dict that is only   *)
(* looked up is a function.                                                *)
(***************************************************************************)
EXTENDS Integers, Sequences, FiniteSets, TLC

VARIABLES
    \* ---- hhi_index.py ----
    metric,               \* the metric argument
    file,                 \* what is stored at file_path
    pc,                   \* position in calculate_hhi_for_ixps / __main__
    opened,               \* TRUE once open(file_path) has been called
    data,                 \* json.load's result
    target_ixps,          \* dict ix id -> name
    ixlan_to_ix_map,      \* dict ixlan id -> ix id
    final_ixp_values,     \* dict ix id -> value, in insertion order
    total_market_size,
    result,               \* the returned (hhi_score, ixp_details)
    concentration_level,  \* what the report block printed
    \* ---- asn_type.py ----
    max_retries,          \* the max_retries argument
    pages,                \* the server's pages: pages[p] is page p's "data"
    fpc,                  \* position in query_peeringdb_networks
    next_url,             \* the page the loop is about to request (0: None)
    retry_total,          \* what is left of Retry.total within one session.get
    response,             \* what session.get handed to the loop
    all_networks,
    requests,             \* requests sent per page url
    answered,             \* the statuses the server gave for next_url so far
    failure               \* the except clause that ended the loop

hhiVars == <<metric, file, pc, opened, data, target_ixps, ixlan_to_ix_map,
             final_ixp_values, total_market_size, result, concentration_level>>
fetchVars == <<max_retries, pages, fpc, next_url, retry_total, response,
               all_networks, requests, answered, failure>>
vars == <<hhiVars, fetchVars>>

-----------------------------------------------------------------------------
(* Bounds of the model *)

MaxLinks == 2
MaxPages == 3
MaxRetries == 1

-----------------------------------------------------------------------------
(* Exact fractions *)

Frac(n, d) == [num |-> n, den |-> d]
Zero == Frac(0, 1)

RECURSIVE GCD(_, _)
GCD(a, b) == IF b = 0 THEN a ELSE GCD(b, a % b)

\* The same number in lowest terms (numerators are never negative here)
Lowest(f) == LET g == GCD(f.num, f.den) IN Frac(f.num \div g, f.den \div g)

FAdd(a, b) == Lowest(Frac(a.num * b.den + b.num * a.den, a.den * b.den))
FMul(a, b) == Lowest(Frac(a.num * b.num, a.den * b.den))
FEq(a, b) == a.num * b.den = b.num * a.den
FLt(a, b) == a.num * b.den < b.num * a.den
FLe(a, b) == a.num * b.den <= b.num * a.den
FInt(n) == Frac(n, 1)

RECURSIVE SeqSum(_)
SeqSum(s) == IF s = <<>> THEN 0 ELSE Head(s) + SeqSum(Tail(s))

RECURSIVE FSum(_)
FSum(s) == IF s = <<>> THEN Zero ELSE FAdd(Head(s), FSum(Tail(s)))

Range(s) == {s[k] : k \in 1..Len(s)}

-----------------------------------------------------------------------------
(* hhi_index.py: the inputs *)

TARGET_COUNTRY == "NL"
country_code == TARGET_COUNTRY

ValidMetricsNoCheck == {"speed", "asns", "bogus"}
ValidMetrics == {"speed", "asns"}

Metrics == {"speed", "asns", "bogus"}
Countries == {"NL", "US"}
IxNames == [i \in {1, 2} |-> IF i = 1 THEN "AMS-IX" ELSE "NL-ix"]
LanIxIds == {1, 2, 9}           \* 9 is the id of no ix record
LinkLanIds == {10, 11, 12}      \* 12 is the id of no ixlan record
NetIds == {100, 101}
Speeds == {1, 2}

\* A netixlan record; "speed" may be absent.
Links == [ixlan_id : LinkLanIds, net_id : NetIds, speed : Speeds]
           \cup [ixlan_id : LinkLanIds, net_id : NetIds]

LinkLists == UNION {[1..n -> Links] : n \in 0..MaxLinks}

\* A well-formed dump: ix, ixlan and netixlan, each the list under "data".
Dumps ==
    {[ix |-> <<[id |-> 1, name |-> IxNames[1], country |-> c1],
               [id |-> 2, name |-> IxNames[2], country |-> c2]>>,
      ixlan |-> <<[id |-> 10, ix_id |-> 1], [id |-> 11, ix_id |-> b]>>,
      netixlan |-> l] :
        c1 \in Countries, c2 \in Countries, b \in LanIxIds, l \in LinkLists}

NoData == [ix |-> <<>>, ixlan |-> <<>>, netixlan |-> <<>>]

\* What is at file_path: nothing, text that is not JSON, JSON that is not an
\* object (for instance a list), or a dump.
Files == {[kind |-> "missing", json |-> NoData],
          [kind |-> "notjson", json |-> NoData],
          [kind |-> "notobject", json |-> NoData]}
           \cup {[kind |-> "dump", json |-> d] : d \in Dumps}

NoResult == [kind |-> "unset", hhi |-> Zero, details |-> <<>>]
NonePair == [kind |-> "None", hhi |-> Zero, details |-> <<>>]
Returned(h, d) == [kind |-> "value", hhi |-> h, details |-> d]

\* dict.get(key, default) on a record
Get(rec, key, default) == IF key \in DOMAIN rec THEN rec[key] ELSE default

-----------------------------------------------------------------------------
(* hhi_index.py: the stages of calculate_hhi_for_ixps *)

\* Step 1: {ix['id']: ix['name'] for ix in ... if ix.get('country') == country_code}
TargetIxps(ixs, cc) ==
    LET ids == {ixs[k].id : k \in {j \in 1..Len(ixs) : ixs[j].country = cc}}
        last(i) == CHOOSE k \in 1..Len(ixs) :
                      /\ ixs[k].id = i /\ ixs[k].country = cc
                      /\ \A j \in 1..Len(ixs) :
                           (ixs[j].id = i /\ ixs[j].country = cc) => j <= k
    IN  [i \in ids |-> ixs[last(i)].name]

IxlanKeptAll(ixlan, targets) == TRUE
\* Step 2's filter: if ixlan.get('ix_id') in target_ixps
IxlanKept(ixlan, targets) == ixlan.ix_id \in DOMAIN targets

\* Step 2: {ixlan['id']: ixlan.get('ix_id') for ixlan in ... if ...}; a later
\* record with the same id overwrites an earlier one.
IxlanToIxMap(ixlans, targets) ==
    LET kept == {k \in 1..Len(ixlans) : IxlanKept(ixlans[k], targets)}
        ids == {ixlans[k].id : k \in kept}
    IN  [i \in ids |->
            ixlans[CHOOSE k \in kept :
                     /\ ixlans[k].id = i
                     /\ \A j \in kept : ixlans[j].id = i => j <= k].ix_id]

\* Position of key in an insertion-ordered dict, 0 when absent.
IndexOf(dict, key) ==
    IF \E k \in 1..Len(dict) : dict[k][1] = key
    THEN CHOOSE k \in 1..Len(dict) : dict[k][1] = key
    ELSE 0

AsnsAddReset(present, cur, net_id) == {net_id}
\* if 'value' not in ...: ... = set(); ...add(net_id)
AsnsAdd(present, cur, net_id) == (IF present THEN cur ELSE {}) \cup {net_id}

\* One iteration of the loop of step 3 over ixp_market_values (the inner
\* dict holds the one key 'value', so the entry is the value itself).
AggregateLink(values, link, map, m) ==
    LET ixlan_id == Get(link, "ixlan_id", 0)
    IN  IF ixlan_id \notin DOMAIN map THEN values
        ELSE LET ix_id == map[ixlan_id]
                 at == IndexOf(values, ix_id)
             IN  IF m = "speed"
                 THEN LET speed == Get(link, "speed", 0)
                      IN  IF at = 0 THEN Append(values, <<ix_id, 0 + speed>>)
                          ELSE [values EXCEPT ![at] = <<ix_id, @[2] + speed>>]
                 ELSE IF m = "asns"
                 THEN LET net_id == Get(link, "net_id", 0)
                      IN  IF at = 0
                          THEN Append(values, <<ix_id, AsnsAdd(FALSE, {}, net_id)>>)
                          ELSE [values EXCEPT
                                  ![at] = <<ix_id, AsnsAdd(TRUE, @[2], net_id)>>]
                 ELSE values

RECURSIVE AggregateFrom(_, _, _, _)
AggregateFrom(values, links, map, m) ==
    IF links = <<>> THEN values
    ELSE AggregateFrom(AggregateLink(values, Head(links), map, m),
                       Tail(links), map, m)

\* Step 3 and the finalisation: len() of each set under 'asns'.
FinalValues(links, map, m) ==
    LET values == AggregateFrom(<<>>, links, map, m)
    IN  [k \in 1..Len(values) |->
            <<values[k][1],
              IF m = "asns" THEN Cardinality(values[k][2]) ELSE values[k][2]>>]

NeverZero(total) == FALSE
\* if total_market_size == 0
IsZeroTotal(total) == total = 0

ShareAsFraction(value, total, m) == Frac(value, total)
\* market_share = (value / total_market_size) * 100
MarketShare(value, total, m) == FMul(Frac(value, total), FInt(100))

\* display_value: value, divided by 1000.0 under 'speed'
DisplayValue(value, m) == IF m = "speed" THEN Frac(value, 1000) ELSE FInt(value)

IxpDetailsSkipZero(values, targets, total, m) ==
    LET kept == SelectSeq(values, LAMBDA e : e[2] # 0)
    IN  [k \in 1..Len(kept) |->
            <<IF kept[k][1] \in DOMAIN targets THEN targets[kept[k][1]]
              ELSE "Unknown IXP",
              DisplayValue(kept[k][2], m),
              MarketShare(kept[k][2], total, m)>>]
\* Step 5: one (ixp_name, display_value, market_share) per entry
IxpDetails(values, targets, total, m) ==
    [k \in 1..Len(values) |->
        <<IF values[k][1] \in DOMAIN targets THEN targets[values[k][1]]
          ELSE "Unknown IXP",
          DisplayValue(values[k][2], m),
          MarketShare(values[k][2], total, m)>>]

\* Step 6: sum(details[2] ** 2 for details in ixp_details)
HhiScore(details) ==
    FSum([k \in 1..Len(details) |-> FMul(details[k][3], details[k][3])])

\* list.sort(key=lambda x: x[1], reverse=True): stable, descending
RECURSIVE InsertDesc(_, _)
InsertDesc(sorted, e) ==
    IF sorted = <<>> THEN <<e>>
    ELSE IF FLt(Head(sorted)[2], e[2]) THEN <<e>> \o sorted
    ELSE <<Head(sorted)>> \o InsertDesc(Tail(sorted), e)

RECURSIVE SortDesc(_)
SortDesc(s) ==
    IF s = <<>> THEN <<>>
    ELSE InsertDesc(SortDesc(SubSeq(s, 1, Len(s) - 1)), s[Len(s)])

-----------------------------------------------------------------------------
(* hhi_index.py: the report block *)

LevelExclusiveBounds(hhi) ==
    IF FLt(hhi, FInt(1500)) THEN "Unconcentrated"
    ELSE IF FLt(FInt(1500), hhi) /\ FLt(hhi, FInt(2500)) THEN "Moderately"
    ELSE "Highly"
\* if hhi < 1500 / elif 1500 <= hhi <= 2500 / else
ConcentrationLevel(hhi) ==
    IF FLt(hhi, FInt(1500)) THEN "Unconcentrated"
    ELSE IF FLe(FInt(1500), hhi) /\ FLe(hhi, FInt(2500)) THEN "Moderately"
    ELSE "Highly"

-----------------------------------------------------------------------------
(* hhi_index.py: the actions *)

fetchIdle ==
    /\ max_retries = 0 /\ pages = <<>> /\ fpc = "idle" /\ next_url = 0
    /\ retry_total = 0 /\ response = "none" /\ all_networks = <<>>
    /\ requests = <<>> /\ answered = <<>> /\ failure = "none"

hhiStart ==
    /\ pc = "start" /\ opened = FALSE /\ data = NoData
    /\ target_ixps = <<>> /\ ixlan_to_ix_map = <<>>
    /\ final_ixp_values = <<>> /\ total_market_size = 0
    /\ result = NoResult /\ concentration_level = "none"

Init ==
    /\ metric \in Metrics
    /\ file \in Files
    /\ hhiStart
    /\ fetchIdle

\* lines 24-26
RejectMetric ==
    /\ pc = "start"
    /\ UNCHANGED fetchVars
    /\ metric \notin ValidMetrics
    /\ result' = NonePair
    /\ pc' = "returned"
    /\ UNCHANGED <<metric, file, opened, data, target_ixps, ixlan_to_ix_map,
                   final_ixp_values, total_market_size, concentration_level>>

\* lines 28-33: open() raises FileNotFoundError
LoadNotFound ==
    /\ pc = "start"
    /\ UNCHANGED fetchVars
    /\ metric \in ValidMetrics
    /\ file.kind = "missing"
    /\ opened' = TRUE
    /\ result' = NonePair
    /\ pc' = "returned"
    /\ UNCHANGED <<metric, file, data, target_ixps, ixlan_to_ix_map,
                   final_ixp_values, total_market_size, concentration_level>>

\* lines 28-30, 34-36: json.load raises JSONDecodeError
LoadDecodeError ==
    /\ pc = "start"
    /\ UNCHANGED fetchVars
    /\ metric \in ValidMetrics
    /\ file.kind = "notjson"
    /\ opened' = TRUE
    /\ result' = NonePair
    /\ pc' = "returned"
    /\ UNCHANGED <<metric, file, data, target_ixps, ixlan_to_ix_map,
                   final_ixp_values, total_market_size, concentration_level>>

\* lines 28-30: json.load succeeds
LoadOk ==
    /\ pc = "start"
    /\ UNCHANGED fetchVars
    /\ metric \in ValidMetrics
    /\ file.kind \in {"notobject", "dump"}
    /\ opened' = TRUE
    /\ data' = file.json
    /\ pc' = "step1"
    /\ UNCHANGED <<metric, file, target_ixps, ixlan_to_ix_map, final_ixp_values,
                   total_market_size, result, concentration_level>>

\* line 41 on JSON that is no object: data.get raises AttributeError, which
\* nothing catches; the script ends with a traceback.
ScopeRaises ==
    /\ pc = "step1"
    /\ UNCHANGED fetchVars
    /\ file.kind = "notobject"
    /\ pc' = "raised"
    /\ UNCHANGED <<metric, file, opened, data, target_ixps, ixlan_to_ix_map,
                   final_ixp_values, total_market_size, result,
                   concentration_level>>

\* lines 38-47: no ix of the country
ScopeEmpty ==
    /\ pc = "step1"
    /\ UNCHANGED fetchVars
    /\ file.kind = "dump"
    /\ target_ixps' = TargetIxps(data.ix, country_code)
    /\ DOMAIN target_ixps' = {}
    /\ result' = Returned(Zero, <<>>)
    /\ pc' = "returned"
    /\ UNCHANGED <<metric, file, opened, data, ixlan_to_ix_map, final_ixp_values,
                   total_market_size, concentration_level>>

\* lines 38-54
ResolveScope ==
    /\ pc = "step1"
    /\ UNCHANGED fetchVars
    /\ file.kind = "dump"
    /\ target_ixps' = TargetIxps(data.ix, country_code)
    /\ DOMAIN target_ixps' # {}
    /\ ixlan_to_ix_map' = IxlanToIxMap(data.ixlan, target_ixps')
    /\ pc' = "step3"
    /\ UNCHANGED <<metric, file, opened, data, final_ixp_values,
                   total_market_size, result, concentration_level>>

\* lines 57-84
Aggregate ==
    /\ pc = "step3"
    /\ UNCHANGED fetchVars
    /\ final_ixp_values' = FinalValues(data.netixlan, ixlan_to_ix_map, metric)
    /\ total_market_size' =
          SeqSum([k \in 1..Len(final_ixp_values') |-> final_ixp_values'[k][2]])
    /\ IF IsZeroTotal(total_market_size')
       THEN /\ result' = Returned(Zero, <<>>)
            /\ pc' = "returned"
       ELSE /\ result' = result
            /\ pc' = "step5"
    /\ UNCHANGED <<metric, file, opened, data, target_ixps, ixlan_to_ix_map,
                   concentration_level>>

\* lines 86-105; line 89 raises ZeroDivisionError on a zero total
Shares ==
    /\ pc = "step5"
    /\ UNCHANGED fetchVars
    /\ IF total_market_size = 0 /\ final_ixp_values # <<>>
       THEN /\ pc' = "raised"
            /\ result' = result
       ELSE LET ixp_details == IxpDetails(final_ixp_values, target_ixps,
                                          total_market_size, metric)
            IN  /\ result' = Returned(HhiScore(ixp_details), SortDesc(ixp_details))
                /\ pc' = "returned"
    /\ UNCHANGED <<metric, file, opened, data, target_ixps, ixlan_to_ix_map,
                   final_ixp_values, total_market_size, concentration_level>>

\* lines 121-142: if hhi is not None, the report
Report ==
    /\ pc = "returned"
    /\ UNCHANGED fetchVars
    /\ concentration_level' =
          IF result.kind = "None" THEN "skipped" ELSE ConcentrationLevel(result.hhi)
    /\ pc' = "done"
    /\ UNCHANGED <<metric, file, opened, data, target_ixps, ixlan_to_ix_map,
                   final_ixp_values, total_market_size, result>>

Next ==
    \/ RejectMetric
    \/ LoadNotFound
    \/ LoadDecodeError
    \/ LoadOk
    \/ ScopeRaises
    \/ ScopeEmpty
    \/ ResolveScope
    \/ Aggregate
    \/ Shares
    \/ Report

Spec == Init /\ [][Next]_vars

\* The report block on a score of its own: every score band and both
\* boundaries are drawn, with scores in halves around 1500 and 2500.
ScoreSamples ==
    {Frac(n, 2) : n \in (2980..3020) \cup (4980..5020) \cup {0, 10400, 20000}}

ReportInit ==
    /\ metric = "speed"
    /\ file = [kind |-> "dump", json |-> NoData]
    /\ pc = "returned" /\ opened = TRUE /\ data = NoData
    /\ target_ixps = <<>> /\ ixlan_to_ix_map = <<>>
    /\ final_ixp_values = <<>> /\ total_market_size = 0
    /\ result \in {NonePair} \cup {Returned(h, <<>>) : h \in ScoreSamples}
    /\ concentration_level = "none"
    /\ fetchIdle

ReportNext == Report

ReportSpec == ReportInit /\ [][ReportNext]_vars

-----------------------------------------------------------------------------
(* asn_type.py: the server and the session *)

\* The records of page p: p record ids of its own.
PageSizes == {0, 1, 2}
PageOf(p, n) == [k \in 1..n |-> 10 * p + k]
PageLists ==
    UNION {{[p \in 1..m |-> PageOf(p, sz[p])] : sz \in [1..m -> PageSizes]} :
             m \in 1..MaxPages}

base_url == 1
\* data.get("meta", {}).get("next"): the next page's url, None (0) on the last
NextOf(p, pgs) == IF p < Len(pgs) THEN p + 1 ELSE 0

StatusForcelistNo429 == {500, 502, 503, 504}
\* status_forcelist of the Retry of create_session
StatusForcelist == {429, 500, 502, 503, 504}

\* What the server does with one request: a status and a body, or no answer
\* at all (status 0: the connection fails).
Answers == {[status |-> 200, body |-> "json"],
            [status |-> 200, body |-> "garbled"],
            [status |-> 404, body |-> "json"],
            [status |-> 429, body |-> "json"],
            [status |-> 503, body |-> "json"],
            [status |-> 0, body |-> "none"]}

NoResponse == [status |-> 0, body |-> "unset"]
\* What session.get raises once the Retry is exhausted.
Raised(name) == [status |-> 0, body |-> name]

\* Retry.is_retry for a GET: a status of status_forcelist; a failed
\* connection is retried as well.
IsRetry(ans) == ans.status = 0 \/ ans.status \in StatusForcelist

ExtendReplace(all, networks) == networks
\* all_networks.extend(networks)
Extend(all, networks) == all \o networks

-----------------------------------------------------------------------------
(* asn_type.py: the actions of query_peeringdb_networks *)

hhiIdle ==
    /\ metric = "speed"
    /\ file = [kind |-> "missing", json |-> NoData]
    /\ pc = "idle" /\ opened = FALSE /\ data = NoData
    /\ target_ixps = <<>> /\ ixlan_to_ix_map = <<>>
    /\ final_ixp_values = <<>> /\ total_market_size = 0
    /\ result = NoResult /\ concentration_level = "none"

FetchInit ==
    /\ max_retries \in 0..MaxRetries
    /\ pages \in PageLists
    /\ fpc = "start"
    /\ next_url = 0
    /\ retry_total = 0
    /\ response = NoResponse
    /\ all_networks = <<>>
    /\ requests = [p \in 1..Len(pages) |-> 0]
    /\ answered = <<>>
    /\ failure = "none"
    /\ hhiIdle

\* lines 88-102: the session, all_networks = [], next_url = base_url
CreateSession ==
    /\ fpc = "start"
    /\ all_networks' = <<>>
    /\ next_url' = base_url
    /\ retry_total' = max_retries
    /\ fpc' = "get"
    /\ UNCHANGED <<max_retries, pages, response, requests, answered, failure>>
    /\ UNCHANGED hhiVars

\* line 107, one request of session.get(next_url) under the adapter's Retry:
\* an answer Retry takes for a retry is not handed to the loop; the request is
\* sent again while Retry.total lasts, and then RetryError (a status) or
\* ConnectionError (no answer), both RequestException, is raised.
SendRequest(ans) ==
    /\ fpc = "get"
    /\ requests' = [requests EXCEPT ![next_url] = @ + 1]
    /\ answered' = Append(answered, ans.status)
    /\ IF IsRetry(ans)
       THEN IF retry_total = 0
            THEN /\ response' = Raised(IF ans.status = 0 THEN "ConnectionError"
                                       ELSE "RetryError")
                 /\ fpc' = "got"
                 /\ UNCHANGED retry_total
            ELSE /\ retry_total' = retry_total - 1
                 /\ UNCHANGED <<response, fpc>>
       ELSE /\ response' = ans
            /\ fpc' = "got"
            /\ UNCHANGED retry_total
    /\ UNCHANGED <<max_retries, pages, next_url, all_networks, failure>>
    /\ UNCHANGED hhiVars

\* lines 108-121: the page is decoded and added, the loop goes on with
\* meta.next or ends without it
ProcessPage ==
    /\ fpc = "got"
    /\ response.status \in 1..399
    /\ response.body = "json"
    /\ all_networks' = Extend(all_networks, pages[next_url])
    /\ next_url' = NextOf(next_url, pages)
    /\ retry_total' = max_retries
    /\ fpc' = IF next_url' # 0 THEN "get" ELSE "returned"
    /\ answered' = <<>>
    /\ UNCHANGED <<max_retries, pages, response, requests, failure>>
    /\ UNCHANGED hhiVars

\* lines 108, 123-133: raise_for_status raises HTTPError; on 429 the loop
\* sleeps and requests the same url again, on any other status it breaks.
\* With 429 in StatusForcelist no 429 answer is handed to the loop, and the
\* first branch is not taken.
HandleHTTPError ==
    /\ fpc = "got"
    /\ response.status >= 400
    /\ IF response.status = 429
       THEN /\ retry_total' = max_retries
            /\ fpc' = "get"
            /\ UNCHANGED failure
       ELSE /\ failure' = "HTTPError"
            /\ fpc' = "returned"
            /\ UNCHANGED retry_total
    /\ UNCHANGED <<max_retries, pages, next_url, response, all_networks, requests,
                   answered>>
    /\ UNCHANGED hhiVars

\* lines 107, 134-136: session.get raised a RequestException
HandleRequestException ==
    /\ fpc = "got"
    /\ response.status = 0
    /\ failure' = response.body
    /\ fpc' = "returned"
    /\ UNCHANGED <<max_retries, pages, next_url, retry_total, response,
                   all_networks, requests, answered>>
    /\ UNCHANGED hhiVars

\* lines 110, 137-139 (and 134-136: requests' JSONDecodeError is a
\* RequestException too): response.json() cannot decode the body
HandleJSONDecodeError ==
    /\ fpc = "got"
    /\ response.status \in 1..399
    /\ response.body = "garbled"
    /\ failure' = "JSONDecodeError"
    /\ fpc' = "returned"
    /\ UNCHANGED <<max_retries, pages, next_url, retry_total, response,
                   all_networks, requests, answered>>
    /\ UNCHANGED hhiVars

FetchNext ==
    \/ CreateSession
    \/ \E ans \in Answers : SendRequest(ans)
    \/ ProcessPage
    \/ HandleHTTPError
    \/ HandleRequestException
    \/ HandleJSONDecodeError

\* Every request is answered or fails: the loop is never left waiting.
FetchSpec == FetchInit /\ [][FetchNext]_vars /\ WF_vars(FetchNext)


-----------------------------------------------------------------------------
(* What the claims speak of, stated on the dump itself and not on the       *)
(* dicts the function builds                                                *)

dump == file.json

\* The ids of the Exchanges of the target country
CountryIx == {x.id : x \in {y \in Range(dump.ix) : y.country = country_code}}

\* The netixlan records (by position) whose ixlan_id is the id of an ixlan
\* record whose ix_id is i, an Exchange of the target country
LinksOf(i) ==
    {k \in 1..Len(dump.netixlan) :
        /\ i \in CountryIx
        /\ \E a \in Range(dump.ixlan) :
              a.id = dump.netixlan[k].ixlan_id /\ a.ix_id = i}

InScopeLinks == UNION {LinksOf(i) : i \in CountryIx}

SpeedAt(k) ==
    IF "speed" \in DOMAIN dump.netixlan[k] THEN dump.netixlan[k].speed ELSE 0

RECURSIVE SpeedSum(_)
SpeedSum(K) ==
    IF K = {} THEN 0
    ELSE LET k == CHOOSE j \in K : TRUE IN SpeedAt(k) + SpeedSum(K \ {k})

DistinctNets(i) == {dump.netixlan[k].net_id : k \in LinksOf(i)}

ExpectedValue(i) ==
    IF metric = "speed" THEN SpeedSum(LinksOf(i)) ELSE Cardinality(DistinctNets(i))

RECURSIVE ExpectedTotalOver(_)
ExpectedTotalOver(I) ==
    IF I = {} THEN 0
    ELSE LET i == CHOOSE j \in I : TRUE
         IN  ExpectedValue(i) + ExpectedTotalOver(I \ {i})

ExpectedTotal == ExpectedTotalOver(CountryIx)

RECURSIVE SquareSumOver(_)
SquareSumOver(I) ==
    IF I = {} THEN 0
    ELSE LET i == CHOOSE j \in I : TRUE
         IN  ExpectedValue(i) * ExpectedValue(i) + SquareSumOver(I \ {i})

\* The Exchanges of the target country with at least one link in scope
LinkedIx == {i \in CountryIx : LinksOf(i) # {}}

Computing == file.kind = "dump" /\ metric \in {"speed", "asns"}
Aggregated == Computing /\ pc \in {"step5", "returned", "done"} /\ CountryIx # {}
Finished == pc \in {"returned", "done"}
NonEmptyResult == Finished /\ result.kind = "value" /\ result.details # <<>>

EntriesOf(i) == {k \in 1..Len(result.details) : result.details[k][1] = IxNames[i]}

-----------------------------------------------------------------------------
(* The claims *)

\* C1: a netixlan record counts toward an Exchange's value, and so toward
\* total_market_size, only when its ixlan_id is the id of an ixlan record
\* whose ix_id is the id of an ix record of the target country: every key of
\* the aggregated values is such an Exchange with such a link, its value is
\* the value of exactly those links, and the total is their total; a link with
\* an unknown ixlan_id or into another country's Exchange adds nothing.
C1_OnlyInScopeLinksCount ==
    Aggregated =>
        /\ \A k \in 1..Len(final_ixp_values) :
              /\ final_ixp_values[k][1] \in LinkedIx
              /\ final_ixp_values[k][2] = ExpectedValue(final_ixp_values[k][1])
        /\ total_market_size = ExpectedTotal

\* C1's case: a link in scope and a link out of scope (a LAN of an Exchange
\* of another country), both with a speed, and the total counts the first only.
C1_Witness ==
    /\ Aggregated /\ metric = "speed" /\ pc = "returned"
    /\ \E k \in InScopeLinks : SpeedAt(k) > 0
    /\ \E k \in 1..Len(dump.netixlan) :
          /\ k \notin InScopeLinks /\ SpeedAt(k) > 0
          /\ dump.netixlan[k].ixlan_id = 11
    /\ dump.ixlan[2].ix_id = 2
    /\ total_market_size > 0

\* C2: on a non-empty detail list the score is the sum of the squared
\* sharePercent of the entries, each sharePercent is the raw value of its
\* Exchange / total_market_size * 100, the shares sum to 100, and
\* score * total^2 = 10000 * sum(value_i^2).
C2_ScoreIsSumOfSquaredShares ==
    NonEmptyResult =>
        /\ FEq(result.hhi,
               FSum([k \in 1..Len(result.details) |->
                        FMul(result.details[k][3], result.details[k][3])]))
        /\ FEq(FSum([k \in 1..Len(result.details) |-> result.details[k][3]]),
               FInt(100))
        /\ \A i \in LinkedIx : \A k \in EntriesOf(i) :
              FEq(result.details[k][3], Frac(100 * ExpectedValue(i), ExpectedTotal))
        /\ result.hhi.num * ExpectedTotal * ExpectedTotal
              = 10000 * SquareSumOver(CountryIx) * result.hhi.den

\* C2's case: two Exchanges with unequal speeds, 1 and 2 of a total of 3.
C2_Witness ==
    /\ NonEmptyResult /\ metric = "speed"
    /\ Len(result.details) = 2
    /\ ExpectedTotal = 3
    /\ FEq(result.hhi, Frac(50000, 9))

\* C3: with a metric outside {speed, asns} the outcome is (None, None) and
\* the file at file_path is never opened, whatever is stored there.
C3_InvalidMetricBeforeFileAccess ==
    metric \notin {"speed", "asns"} =>
        /\ ~opened
        /\ pc \in {"start", "returned", "done"}
        /\ Finished => result = NonePair

\* C3's case: an unknown metric with a well-formed dump at file_path.
C3_Witness ==
    /\ metric = "bogus" /\ file.kind = "dump" /\ CountryIx # {}
    /\ InScopeLinks # {}
    /\ pc = "returned" /\ result = NonePair /\ ~opened

\* C4: with a valid metric and a loadable dump, no Exchange of the country or
\* a zero sum of the values gives exactly (0.0, []) and no error; the
\* division by total_market_size is never reached with a zero total.
C4_EmptyScopeOrZeroTotal ==
    Computing =>
        /\ pc # "raised"
        /\ (CountryIx = {} \/ ExpectedTotal = 0) =>
              /\ pc # "step5"
              /\ Finished => result = Returned(Zero, <<>>)

\* C4's case: links in scope, none with a speed, so the total is zero.
C4_Witness ==
    /\ Computing /\ pc = "returned" /\ metric = "speed"
    /\ InScopeLinks # {} /\ ExpectedTotal = 0
    /\ final_ixp_values # <<>>
    /\ result = Returned(Zero, <<>>)

\* C4's other case: no ix record of the target country.
C4_WitnessNoExchange ==
    /\ Computing /\ pc = "returned" /\ CountryIx = {}
    /\ Len(dump.netixlan) > 0
    /\ result = Returned(Zero, <<>>)

\* C5: when the file does not exist or its content is not parseable as the
\* expected structure, the outcome is (None, None): no score, no detail
\* list, no exception, and the report block is skipped.
C5_NotFoundOrMalformedGivesNone ==
    (metric \in {"speed", "asns"} /\ file.kind # "dump") =>
        /\ pc # "raised"
        /\ Finished => result = NonePair
        /\ pc = "done" => concentration_level = "skipped"

\* The part of C5 the code keeps: a missing file and text that is not JSON.
C5_NotFoundOrNotJson ==
    (metric \in {"speed", "asns"} /\ file.kind \in {"missing", "notjson"}) =>
        /\ pc \in {"start", "returned", "done"}
        /\ Finished => result = NonePair
        /\ pc = "done" => concentration_level = "skipped"

\* C6: under 'asns' the value of each Exchange is the number of distinct
\* net_id among the links in scope that resolve to it, through whichever of
\* its LANs: the detail list shows that number for every such Exchange.
C6_AsnsCountsDistinctNetworks ==
    (Computing /\ metric = "asns") =>
        /\ Aggregated =>
              \A i \in LinkedIx : \E k \in 1..Len(final_ixp_values) :
                    final_ixp_values[k] = <<i, Cardinality(DistinctNets(i))>>
        /\ NonEmptyResult =>
              \A i \in LinkedIx : \A k \in EntriesOf(i) :
                    result.details[k][2] = FInt(Cardinality(DistinctNets(i)))

\* C6's case: two links of one network into one Exchange through two of its
\* LANs count once.
C6_Witness ==
    /\ NonEmptyResult /\ metric = "asns"
    /\ \E j, k \in LinksOf(1) :
          /\ j # k
          /\ dump.netixlan[j].net_id = dump.netixlan[k].net_id
          /\ dump.netixlan[j].ixlan_id # dump.netixlan[k].ixlan_id
    /\ Cardinality(DistinctNets(1)) = 1
    /\ result.details = <<<<IxNames[1], FInt(1), Frac(100, 1)>>>>

\* C6's other case: two networks on one Exchange count twice.
C6_WitnessTwoNetworks ==
    /\ NonEmptyResult /\ metric = "asns"
    /\ Cardinality(DistinctNets(1)) = 2
    /\ \E k \in EntriesOf(1) : result.details[k][2] = FInt(2)

\* C8: a non-empty detail list has exactly one entry per Exchange of the
\* target country with at least one link in scope: none for an Exchange of
\* the country without such a link, and one with share 0 for an Exchange
\* whose links sum to 0.
C8_OneEntryPerLinkedExchange ==
    NonEmptyResult =>
        /\ Len(result.details) = Cardinality(LinkedIx)
        /\ \A i \in LinkedIx : Cardinality(EntriesOf(i)) = 1
        /\ \A i \in CountryIx \ LinkedIx : EntriesOf(i) = {}
        /\ \A i \in LinkedIx : ExpectedValue(i) = 0 =>
              \A k \in EntriesOf(i) : FEq(result.details[k][3], Zero)

\* C8's case: two Exchanges of the country, one with a link and one without.
C8_Witness ==
    /\ NonEmptyResult
    /\ Cardinality(CountryIx) = 2
    /\ Cardinality(LinkedIx) = 1
    /\ Len(result.details) = 1

\* C8's other case: an Exchange whose only link has no speed has a row of
\* value 0 and share 0 beside the other Exchange's row.
C8_WitnessZeroRow ==
    /\ NonEmptyResult /\ metric = "speed"
    /\ Cardinality(LinkedIx) = 2
    /\ \E i \in LinkedIx : ExpectedValue(i) = 0
    /\ \E k \in 1..Len(result.details) :
          result.details[k][2].num = 0 /\ result.details[k][3].num = 0

\* C9: the report puts every score that is not None in exactly one band:
\* below 1500 unconcentrated, from 1500 to 2500 with both bounds moderately
\* concentrated, above 2500 highly concentrated.
C9_ThreeBands ==
    (pc = "done" /\ result.kind = "value") =>
        LET h == result.hhi
        IN  /\ concentration_level \in {"Unconcentrated", "Moderately", "Highly"}
            /\ concentration_level = "Unconcentrated" <=> h.num < 1500 * h.den
            /\ concentration_level = "Moderately" <=>
                  (1500 * h.den <= h.num /\ h.num <= 2500 * h.den)
            /\ concentration_level = "Highly" <=> h.num > 2500 * h.den

\* C9's case: the score 2500 itself, reported as moderately concentrated.
C9_Witness ==
    /\ pc = "done" /\ result.kind = "value"
    /\ FEq(result.hhi, FInt(2500))
    /\ concentration_level = "Moderately"

\* C9's other boundary: the score 1500.
C9_WitnessLower ==
    /\ pc = "done" /\ result.kind = "value"
    /\ FEq(result.hhi, FInt(1500))
    /\ concentration_level = "Moderately"

-----------------------------------------------------------------------------
(* The claims on query_peeringdb_networks *)

RECURSIVE PagesUpTo(_, _)
\* The records of pages 1..n, in page order
PagesUpTo(n, pgs) == IF n = 0 THEN <<>> ELSE PagesUpTo(n - 1, pgs) \o pgs[n]

\* C7: when the request of a page fails for good (a transport error or the
\* retries exhausted, an HTTP error other than 429, a body that does not
\* decode), the loop ends and the function returns the records of the pages
\* fetched before, in page order and once each.
C7_PartialResultsKept ==
    (fpc = "returned" /\ failure # "none") =>
        /\ next_url \in 1..Len(pages)
        /\ all_networks = PagesUpTo(next_url - 1, pages)

\* C7's case: the third page fails after two pages with records were fetched.
C7_Witness ==
    /\ fpc = "returned" /\ failure = "HTTPError"
    /\ next_url = 3
    /\ pages[1] # <<>> /\ pages[2] # <<>>
    /\ all_networks = pages[1] \o pages[2]

====
